---- MODULE Spec2Model ----
(***************************************************************************)
(* State-machine model of sirdeggen/register:                              *)
(*   - the certificate issuer route  back/src/routes/signCertificate.ts    *)
(*   - the DID registry class        BsvOverlayRegistry (createDID,        *)
(*     resolveDID, updateDID)                                              *)
(* A JavaScript string is a sequence of one-character strings; a JSON      *)
(* value that may be absent is a record with a `def` flag.  Every await of *)
(* the source is a suspension point: one action runs a handler from one    *)
(* await to the next.                                                      *)
(***************************************************************************)
EXTENDS Integers, Sequences, FiniteSets, TLC

VARIABLES req, call, walletClient, db, anchors, ncalls

(***************************************************************************)
(* JSON values of the request body                                         *)
(***************************************************************************)
Undefined == [def |-> FALSE, s |-> <<>>]
Str(chars) == [def |-> TRUE, s |-> chars]
UndefinedObj == [def |-> FALSE, m |-> <<>>]
Obj(map) == [def |-> TRUE, m |-> map]

Range(f) == {f[x] : x \in DOMAIN f}

\* JavaScript truthiness as used by `!args.x`: undefined and '' are falsy,
\* every object (also the empty one) is truthy.
Falsy(v) == \/ ~v.def
            \/ ("s" \in DOMAIN v /\ v.s = <<>>)

\* The two request slots handled by the route (each serves one request).
Reqs == {"r1", "r2"}

\* Authenticated identity keys put on req.auth by the auth middleware.
IdentityKeys == {"I1", "I2"}

\* Public key of the server wallet, wallet.getPublicKey({identityKey: true}).
ServerKey == "SERVER"

ClientNonceVals == {Undefined, Str(<<>>), Str(<<"Q">>), Str(<<"Q", "=">>)}
TypeVals == {Undefined, Str(<<"T">>)}
FieldsVals == {UndefinedObj, Obj([name |-> "e1"]), Obj([name |-> "e2"])}
KeyringVals == {UndefinedObj, Obj(<<>>), Obj([name |-> "k1"])}

Bodies == [clientNonce : ClientNonceVals, type : TypeVals,
           fields : FieldsVals, masterKeyring : KeyringVals]

\* Values createNonce can return: base64 text of random bytes, never empty.
ServerNonces == {<<"A">>, <<"B">>}

\* Errors a collaborator call can reject with.
Errors == {"E1", "E2"}

(***************************************************************************)
(* certifierSignCheckArgs: "ok", or the message of the Error it throws.    *)
(***************************************************************************)
CheckArgsKeyringFirst(args) ==
  IF Falsy(args.masterKeyring) THEN "Missing masterKeyring to decrypt fields!"
  ELSE IF Falsy(args.clientNonce) THEN "Missing client nonce!"
  ELSE IF Falsy(args.type) THEN "Missing certificate type!"
  ELSE IF Falsy(args.fields) THEN "Missing certificate fields to sign!"
  ELSE "ok"

certifierSignCheckArgs(args) ==
  IF Falsy(args.clientNonce) THEN "Missing client nonce!"
  ELSE IF Falsy(args.type) THEN "Missing certificate type!"
  ELSE IF Falsy(args.fields) THEN "Missing certificate fields to sign!"
  ELSE IF Falsy(args.masterKeyring) THEN "Missing masterKeyring to decrypt fields!"
  ELSE "ok"

(***************************************************************************)
(* Utils.toArray(text, 'base64'): trailing '=' are stripped, every         *)
(* character contributes its 6-bit index in the base64 alphabet (-1, all   *)
(* bits set, for a character outside it), and each completed group of 8    *)
(* bits is emitted as a byte; left-over bits are dropped.                  *)
(***************************************************************************)
RECURSIVE Pow2(_)
Pow2(n) == IF n = 0 THEN 1 ELSE 2 * Pow2(n - 1)

B64Index(ch) ==
  CASE ch = "A" -> 0
    [] ch = "B" -> 1
    [] ch = "Q" -> 16
    [] OTHER -> -1

RECURSIVE StripPad(_)
StripPad(text) ==
  IF text # <<>> /\ text[Len(text)] = "="
    THEN StripPad(SubSeq(text, 1, Len(text) - 1))
    ELSE text

RECURSIVE B64Loop(_, _, _, _)
B64Loop(text, currentBit, currentByte, result) ==
  IF text = <<>> THEN result
  ELSE
    LET idx  == B64Index(Head(text))
        bit  == IF idx = -1 THEN Pow2(currentByte + 6) - 1
                            ELSE currentBit * 64 + idx
        have == currentByte + 6
    IN IF have >= 8
         THEN B64Loop(Tail(text), bit % Pow2(have - 8), have - 8,
                      Append(result, (bit \div Pow2(have - 8)) % 256))
         ELSE B64Loop(Tail(text), bit, have, result)

Base64ToArray(text) == B64Loop(StripPad(text), 0, 0, <<>>)

(***************************************************************************)
(* wallet.createHmac: the keyed digest, an injective function of its data, *)
(* key id and counterparty under the fixed protocol id.                    *)
(***************************************************************************)
NoHmac == [data |-> <<>>, keyID |-> <<>>, counterparty |-> "none"]

HmacKeyIdWithoutServerNonce(clientNonce, serverNonce, identityKey) ==
  [data |-> Base64ToArray(clientNonce \o serverNonce),
   keyID |-> clientNonce,
   counterparty |-> identityKey]

createHmacArgs(clientNonce, serverNonce, identityKey) ==
  [data |-> Base64ToArray(clientNonce \o serverNonce),
   keyID |-> serverNonce \o clientNonce,
   counterparty |-> identityKey]

\* Utils.toBase64(hmac): an injective encoding of the digest bytes.
ToBase64(bytes) == [b64 |-> bytes]

(***************************************************************************)
(* MasterCertificate.decryptFields: every field is decrypted with the key  *)
(* revealed by the keyring entry of the same name; an empty keyring, a     *)
(* missing entry or a key that does not open the field rejects.            *)
(***************************************************************************)
CipherKey(ct) == IF ct = "e1" THEN "k1" ELSE "k2"
Plain(ct) == IF ct = "e1" THEN "p1" ELSE "p2"

KeyringOpens(masterKeyring, fields) ==
  /\ masterKeyring.def
  /\ DOMAIN masterKeyring.m # {}
  /\ \A f \in DOMAIN fields.m :
        /\ f \in DOMAIN masterKeyring.m
        /\ masterKeyring.m[f] = CipherKey(fields.m[f])

decryptFields(masterKeyring, fields) ==
  [f \in DOMAIN fields.m |-> Plain(fields.m[f])]

(***************************************************************************)
(* Responses                                                               *)
(***************************************************************************)
Resp400(message) ==
  [status |-> 400, json |-> [status |-> "error", description |-> message]]

Resp500Leaky(e) ==
  [status |-> 500,
   json |-> [status |-> "error", code |-> "ERR_INTERNAL", description |-> e]]

Resp500(e) ==
  [status |-> 500,
   json |-> [status |-> "error", code |-> "ERR_INTERNAL",
             description |-> "An internal error has occurred."]]

\* The response built from a server nonce kept in a variable that all
\* requests share.
Resp200OfSharedNonce(signedCertificate, serverNonce) ==
  LET others == {o \in Reqs : req[o].serverNonce \notin {<<>>, serverNonce}}
  IN [status |-> 200,
      json |-> [certificate |-> signedCertificate,
                serverNonce |-> IF others = {} THEN serverNonce
                                ELSE req[CHOOSE o \in others : TRUE].serverNonce]]

\* The response carrying a server nonce other than the one the serial number
\* was derived from.
Resp200OfAnotherNonce(signedCertificate, serverNonce) ==
  [status |-> 200,
   json |-> [certificate |-> signedCertificate,
             serverNonce |-> CHOOSE n \in ServerNonces : n # serverNonce]]

Resp200(signedCertificate, serverNonce) ==
  [status |-> 200,
   json |-> [certificate |-> signedCertificate, serverNonce |-> serverNonce]]

\* new Certificate(type, serialNumber, subject, certifier, revocationOutpoint, fields)
RevocationOutpoint == "0000.0"

NoCertificate ==
  [type |-> Undefined, serialNumber |-> ToBase64(NoHmac), subject |-> "none",
   certifier |-> "none", revocationOutpoint |-> "none",
   fields |-> UndefinedObj, signature |-> "none"]

CertificateOfPlaintext(type, serialNumber, subject, certifier, fields, decryptedFields) ==
  [type |-> type, serialNumber |-> serialNumber, subject |-> subject,
   certifier |-> certifier, revocationOutpoint |-> RevocationOutpoint,
   fields |-> Obj(decryptedFields), signature |-> "none"]

NewCertificate(type, serialNumber, subject, certifier, fields, decryptedFields) ==
  [type |-> type, serialNumber |-> serialNumber, subject |-> subject,
   certifier |-> certifier, revocationOutpoint |-> RevocationOutpoint,
   fields |-> fields, signature |-> "none"]

\* Certificate.sign(wallet): sets the certifier and the signature.
Signed(cert) == [cert EXCEPT !.certifier = ServerKey, !.signature = "sig"]

(***************************************************************************)
(* One request slot.  pc names the await the handler is suspended at.      *)
(***************************************************************************)
NoBody == [clientNonce |-> Undefined, type |-> Undefined,
           fields |-> UndefinedObj, masterKeyring |-> UndefinedObj]

IdleReq ==
  [pc |-> "idle", body |-> NoBody, identityKey |-> "none", calls |-> <<>>,
   serverNonce |-> <<>>, hmac |-> NoHmac, serialNumber |-> ToBase64(NoHmac),
   decryptedFields |-> <<>>, signedCertificate |-> NoCertificate,
   results |-> <<>>, logged |-> "none", responses |-> <<>>]

\* The handler of request r resumes from its pending await, which resolved
\* or rejected.
Resumed(r, ok) ==
  [req[r] EXCEPT !.results = Append(@, IF ok THEN "resolved" ELSE "rejected")]

\* The outer catch of the handler: console.error(e), then the 500 response.
CatchWithoutResponse(q, e) ==
  [q EXCEPT !.pc = "done", !.logged = e]

Catch(q, e) ==
  [q EXCEPT !.pc = "done", !.logged = e,
            !.responses = Append(@, Resp500(e))]

\* func, lines 81-96: destructure the body, validate, and either answer 400
\* or start verifyNonce.
FuncStart(r, body, identityKey) ==
  /\ req[r].pc = "idle"
  /\ LET message == certifierSignCheckArgs(body)
         q == [req[r] EXCEPT !.body = body, !.identityKey = identityKey]
     IN req' = [req EXCEPT ![r] =
          IF message # "ok"
            THEN [q EXCEPT !.pc = "done",
                           !.responses = Append(@, Resp400(message))]
            ELSE [q EXCEPT !.pc = "verifyNonce",
                           !.calls = Append(@, "verifyNonce")]]

\* The handler going on to createNonce whatever verifyNonce did.
AfterVerifyNonceUnchecked(r, ok, e) ==
  /\ req[r].pc = "verifyNonce"
  /\ LET q == Resumed(r, ok)
     IN req' = [req EXCEPT ![r] =
          [q EXCEPT !.pc = "createNonce",
                    !.calls = Append(@, "createNonce")]]

\* line 96 resumes: verifyNonce resolved or rejected; line 99 starts createNonce.
\* The handler does not read the value verifyNonce resolves to; a nonce that
\* does not verify is a rejection (wallet.verifyHmac answers {valid: true} or
\* rejects).
AfterVerifyNonce(r, ok, e) ==
  /\ req[r].pc = "verifyNonce"
  /\ LET q == Resumed(r, ok)
     IN req' = [req EXCEPT ![r] =
          IF ~ok THEN Catch(q, e)
          ELSE [q EXCEPT !.pc = "createNonce",
                         !.calls = Append(@, "createNonce")]]

\* line 99 resumes with the server nonce; lines 101-106 start createHmac.
AfterCreateNonce(r, ok, e, serverNonce) ==
  /\ req[r].pc = "createNonce"
  /\ LET q == Resumed(r, ok)
     IN req' = [req EXCEPT ![r] =
          IF ~ok THEN Catch(q, e)
          ELSE [q EXCEPT !.pc = "createHmac",
                         !.serverNonce = serverNonce,
                         !.hmac = createHmacArgs(q.body.clientNonce.s,
                                                 serverNonce, q.identityKey),
                         !.calls = Append(@, "createHmac")]]

\* lines 101-107 resume with the hmac; lines 110-115 start decryptFields.
AfterCreateHmac(r, ok, e) ==
  /\ req[r].pc = "createHmac"
  /\ LET q == Resumed(r, ok)
     IN req' = [req EXCEPT ![r] =
          IF ~ok THEN Catch(q, e)
          ELSE [q EXCEPT !.pc = "decryptFields",
                         !.serialNumber = ToBase64(q.hmac),
                         !.calls = Append(@, "decryptFields")]]

\* lines 110-126: decryptFields resolved or rejected; getPublicKey starts.
AfterDecryptFields(r, ok, e) ==
  /\ req[r].pc = "decryptFields"
  /\ LET opened == ok /\ KeyringOpens(req[r].body.masterKeyring, req[r].body.fields)
         q == Resumed(r, opened)
     IN req' = [req EXCEPT ![r] =
          IF ~opened
            THEN Catch(q, e)
          ELSE [q EXCEPT !.pc = "getPublicKey",
                         !.decryptedFields =
                            decryptFields(q.body.masterKeyring, q.body.fields),
                         !.calls = Append(@, "getPublicKey")]]

\* lines 122-131: the certificate is constructed; sign starts.
AfterGetPublicKey(r, ok, e) ==
  /\ req[r].pc = "getPublicKey"
  /\ LET q == Resumed(r, ok)
     IN req' = [req EXCEPT ![r] =
          IF ~ok THEN Catch(q, e)
          ELSE [q EXCEPT !.pc = "sign",
                         !.signedCertificate =
                            NewCertificate(q.body.type, q.serialNumber,
                                           q.identityKey, ServerKey,
                                           q.body.fields, q.decryptedFields),
                         !.calls = Append(@, "sign")]]

\* lines 131-137: sign resolved or rejected; the 200 response.
AfterSign(r, ok, e) ==
  /\ req[r].pc = "sign"
  /\ LET q == Resumed(r, ok)
     IN req' = [req EXCEPT ![r] =
          IF ~ok THEN Catch(q, e)
          ELSE [q EXCEPT !.pc = "done",
                         !.signedCertificate = Signed(q.signedCertificate),
                         !.responses =
                            Append(@, Resp200(Signed(q.signedCertificate),
                                              q.serverNonce))]]

(***************************************************************************)
(* DID registry (BsvOverlayRegistry)                                       *)
(***************************************************************************)
\* Bounds of the registry model.
MaxCalls == 2
MaxTime == 2
MaxIndexCalls == 3

\* this.topic, a colon-free overlay topic name.
Topic == <<"t", "m">>

Null == [null |-> TRUE]

HexDigits == <<"0", "1", "2", "3", "4", "5", "6", "7",
               "8", "9", "a", "b", "c", "d", "e", "f">>

\* Utils.toHex(bytes): two hex digits per byte.
RECURSIVE ToHex(_)
ToHex(bytes) ==
  IF bytes = <<>> THEN <<>>
  ELSE <<HexDigits[(Head(bytes) \div 16) + 1], HexDigits[(Head(bytes) % 16) + 1]>>
         \o ToHex(Tail(bytes))

\* The DID documents callers pass in.
DocList ==
  << [content |-> "D1", context |-> "none", id |-> <<>>,
      verificationMethod |-> <<>>],
     [content |-> "D2", context |-> "custom", id |-> <<"x">>,
      verificationMethod |-> <<"old">>] >>
DocCode(doc) == CHOOSE i \in DOMAIN DocList : DocList[i] = doc

\* Values of Math.random().toString(36).substring(2, 15).
Nonces == {1}

\* Hash.sha256(JSON.stringify({...didDocument, timestamp, nonce})): a digest
\* that is an injective function of the document, timestamp and nonce.
Sha256WithoutTimestamp(doc, timestamp, nonce) == <<DocCode(doc), nonce>>

Sha256(doc, timestamp, nonce) == <<DocCode(doc), timestamp * 16 + nonce>>

\* `did:bsv:${topic}:${serialNumber}`
DidPrefix == <<"d", "i", "d", ":", "b", "s", "v", ":">>
SerialDid(topic, serialNumber) == DidPrefix \o topic \o <<":">> \o serialNumber

\* `did:bsv:${topic}:${txid}:1`
OutpointDid(topic, txid) == DidPrefix \o topic \o <<":">> \o txid \o <<":", "1">>

\* String.prototype.split(':')
RECURSIVE Split(_)
Split(text) ==
  IF \A i \in DOMAIN text : text[i] # ":" THEN <<text>>
  ELSE LET k == CHOOSE i \in DOMAIN text :
                   /\ text[i] = ":"
                   /\ \A j \in 1..(i - 1) : text[j] # ":"
       IN <<SubSeq(text, 1, k - 1)>> \o Split(SubSeq(text, k + 1, Len(text)))

\* Array.prototype.join(':'), used to write the DID inputs down.
RECURSIVE Join(_)
Join(parts) ==
  IF Len(parts) = 1 THEN parts[1]
  ELSE parts[1] \o <<":">> \o Join(Tail(parts))

Digits == <<"0", "1", "2", "3", "4", "5", "6", "7", "8", "9">>
IsDigit(ch) == \E d \in DOMAIN Digits : Digits[d] = ch

\* A JavaScript number that is an integer or NaN.
NaN == [nan |-> TRUE, n |-> 0]
Number(n) == [nan |-> FALSE, n |-> n]

\* The white space parseInt and trimStart skip (StrWhiteSpaceChar): tab, line
\* feed, vertical tab, form feed, carriage return, space, no-break space,
\* U+1680, U+2000 to U+200A, U+2028, U+2029, U+202F, U+205F, U+3000, U+FEFF.
\* U+000B, U+00A0, U+1680 and U+FEFF are written as the character itself; a
\* character from U+2000 on is written by its code point name.
WhiteSpace ==
  {"\t", "\n", "\f", "\r", " ",
   "", " ", " ", "﻿",
   "U+2000", "U+2001", "U+2002", "U+2003", "U+2004", "U+2005",
   "U+2006", "U+2007", "U+2008", "U+2009", "U+200A",
   "U+2028", "U+2029", "U+202F", "U+205F", "U+3000"}

RECURSIVE TrimStart(_)
TrimStart(text) ==
  IF text # <<>> /\ Head(text) \in WhiteSpace THEN TrimStart(Tail(text))
  ELSE text

UpperHexDigits == <<"0", "1", "2", "3", "4", "5", "6", "7",
                    "8", "9", "A", "B", "C", "D", "E", "F">>

\* The value of ch as a digit of the radix (10 or 16), and -1 when it is none.
RadixDigit(ch, radix) ==
  LET Is(d) == HexDigits[d] = ch \/ UpperHexDigits[d] = ch
  IN IF \E d \in 1..radix : Is(d)
       THEN (CHOOSE d \in 1..radix : Is(d)) - 1
       ELSE -1

\* The value of the longest prefix of digits of the radix.
RECURSIVE ParseDigits(_, _, _)
ParseDigits(text, radix, acc) ==
  IF text = <<>> \/ RadixDigit(Head(text), radix) = -1 THEN acc
  ELSE ParseDigits(Tail(text), radix,
                   acc * radix + RadixDigit(Head(text), radix))

\* parseInt(text) without a radix: leading white space is skipped, one sign is
\* read, a 0x or 0X prefix selects radix 16, and the longest prefix of digits
\* is the value; NaN when there is no digit.  -0 prints as 0 and is written 0.
\* Values are exact below 2^31, which bounds the digit strings tried.
ParseInt(text) ==
  LET trimmed == TrimStart(text)
      signed == trimmed # <<>> /\ Head(trimmed) \in {"+", "-"}
      sign == IF trimmed # <<>> /\ Head(trimmed) = "-" THEN -1 ELSE 1
      unsigned == IF signed THEN Tail(trimmed) ELSE trimmed
      hex == /\ Len(unsigned) >= 2
             /\ unsigned[1] = "0" /\ unsigned[2] \in {"x", "X"}
      radix == IF hex THEN 16 ELSE 10
      digits == IF hex THEN SubSeq(unsigned, 3, Len(unsigned)) ELSE unsigned
  IN IF digits = <<>> \/ RadixDigit(Head(digits), radix) = -1 THEN NaN
     ELSE Number(sign * ParseDigits(digits, radix, 0))

\* The decimal digits of a natural number.
RECURSIVE NatToString(_)
NatToString(n) ==
  IF n < 10 THEN <<Digits[n + 1]>>
  ELSE NatToString(n \div 10) \o <<Digits[(n % 10) + 1]>>

\* String(number) / `${number}`
NumberToString(x) ==
  IF x.nan THEN <<"N", "a", "N">>
  ELSE IF x.n < 0 THEN <<"-">> \o NatToString(0 - x.n)
  ELSE NatToString(x.n)

\* The id of the n-th transaction the wallet creates.
TxId(n) == ToHex(<<n>>)

\* finalDidDocument, lines 219-258.
VerificationMethodControlledByKey(id, did, publicKeyJWK) ==
  [id |-> id, type |-> "EcdsaSecp256k1VerificationKey2019",
   controller |-> id, publicKeyJwk |-> publicKeyJWK]

VerificationMethod(id, did, publicKeyJWK) ==
  [id |-> id, type |-> "EcdsaSecp256k1VerificationKey2019",
   controller |-> did, publicKeyJwk |-> publicKeyJWK]

KeyOne == <<"#", "k", "e", "y", "-", "1">>

FinalIgnoresKeyId(didDocument, did, publicKeyJWK, keyId) ==
  LET base == [content |-> didDocument.content,
               id |-> did,
               context |-> IF didDocument.context = "none"
                             THEN "https://www.w3.org/ns/did/v1"
                             ELSE didDocument.context,
               verificationMethod |-> <<>>, authentication |-> <<>>,
               assertionMethod |-> <<>>, keyAgreement |-> <<>>,
               capabilityDelegation |-> <<>>, capabilityInvocation |-> <<>>]
  IN IF ~Falsy(publicKeyJWK) /\ ~Falsy(keyId)
       THEN base
       ELSE IF ~Falsy(publicKeyJWK)
         THEN [base EXCEPT
                 !.verificationMethod =
                    <<VerificationMethod(did \o KeyOne, did, publicKeyJWK)>>,
                 !.authentication = <<did \o KeyOne>>,
                 !.assertionMethod = <<did \o KeyOne>>]
         ELSE base

FinalDidDocument(didDocument, did, publicKeyJWK, keyId) ==
  LET base == [content |-> didDocument.content,
               id |-> did,
               context |-> IF didDocument.context = "none"
                             THEN "https://www.w3.org/ns/did/v1"
                             ELSE didDocument.context,
               verificationMethod |-> <<>>, authentication |-> <<>>,
               assertionMethod |-> <<>>, keyAgreement |-> <<>>,
               capabilityDelegation |-> <<>>, capabilityInvocation |-> <<>>]
  IN IF ~Falsy(publicKeyJWK) /\ ~Falsy(keyId)
       THEN [base EXCEPT
               !.verificationMethod =
                  <<VerificationMethod(keyId.s, did, publicKeyJWK)>>,
               !.authentication = <<keyId.s>>,
               !.assertionMethod = <<keyId.s>>]
       ELSE IF ~Falsy(publicKeyJWK)
         THEN [base EXCEPT
                 !.verificationMethod =
                    <<VerificationMethod(did \o KeyOne, did, publicKeyJWK)>>,
                 !.authentication = <<did \o KeyOne>>,
                 !.assertionMethod = <<did \o KeyOne>>]
         ELSE base

\* lookupData, lines 264-271 (createdAt is read by no operation and left out).
LookupDataWithoutDocument(serialNumber, txid, topic, finalDidDocument) ==
  [serialNumber |-> serialNumber, txid |-> txid, vout |-> 0,
   topic |-> topic, didDocument |-> Null]

LookupDataAtOutputOne(serialNumber, txid, topic, finalDidDocument) ==
  [serialNumber |-> serialNumber, txid |-> txid, vout |-> 1,
   topic |-> topic, didDocument |-> finalDidDocument]

LookupData(serialNumber, txid, topic, finalDidDocument) ==
  [serialNumber |-> serialNumber, txid |-> txid, vout |-> 0,
   topic |-> topic, didDocument |-> finalDidDocument]

\* A did_lookups record written by another indexer: an outpoint without a
\* cached document.
ForeignRecord ==
  [serialNumber |-> ToHex(<<15, 15>>), txid |-> ToHex(<<15>>), vout |-> 0,
   topic |-> Topic, didDocument |-> Null]

\* collection('did_lookups').findOne({ serialNumber }): the first match or null.
FindOne(index, serialNumber) ==
  IF \E i \in DOMAIN index : index[i].serialNumber = serialNumber
    THEN index[CHOOSE i \in DOMAIN index :
                 /\ index[i].serialNumber = serialNumber
                 /\ \A j \in 1..(i - 1) : index[j].serialNumber # serialNumber]
    ELSE Null

Error(message) == [name |-> "Error", message |-> <<message>>]
InvalidDidFormat == Error("Invalid DID format")
\* this.walletClient.createAction on an unset walletClient.
UndefinedWalletClient ==
  [name |-> "TypeError",
   message |-> <<"Cannot read properties of undefined (reading 'createAction')">>]

\* resolveDID's catch, line 425.
FailedToResolve(error) ==
  [name |-> "Error", message |-> <<"Failed to resolve DID: ">> \o error.message]

Return(value) == [kind |-> "return", value |-> value]
Throw(error) == [kind |-> "throw", error |-> error]

\* One record per call made: the n-th call of a behaviour is slot SlotNames[n],
\* and there are as many slots as the larger call bound allows calls.
SlotNames == <<"c1", "c2", "c3", "c4", "c5", "c6">>
MaxSlots == IF MaxCalls > MaxIndexCalls THEN MaxCalls ELSE MaxIndexCalls
Calls == {SlotNames[n] : n \in 1..MaxSlots}

IdleCall ==
  [op |-> "none", pc |-> "idle", seq |-> 0, did |-> <<>>,
   didDocument |-> DocList[1], publicKeyJWK |-> UndefinedObj, keyId |-> Undefined,
   serialNumber |-> <<>>, newDid |-> <<>>, txid |-> <<>>,
   finalDidDocument |-> Null, outpoint |-> <<>>,
   fetched |-> "none", payload |-> <<>>, timestamp |-> 0, end |-> 0,
   calls |-> <<>>, actions |-> <<>>, logged |-> <<>>, result |-> [kind |-> "none"]]

vars == <<req, call, walletClient, db, anchors, ncalls>>
issuerVars == <<req>>
registryVars == <<call, walletClient, db, anchors, ncalls>>

\* A call may start at any time, whatever the other calls are doing: every
\* call gets a record of its own, and MaxCalls bounds only their number.
CanStart(c) ==
  /\ ncalls < MaxCalls
  /\ c = SlotNames[ncalls + 1]

\* The call returns or throws; end is the number of calls started by then.
Finish(q, result) ==
  [q EXCEPT !.pc = "done", !.result = result,
            !.end = IF q.seq > ncalls THEN q.seq ELSE ncalls]

\* The arguments of the createAction request of createDID, lines 183-205.
CreateActionArgs(serialNumber, didDocument) ==
  [description |-> "Create DID transaction with BSV overlay",
   inputs |-> <<>>,
   outputs |-> << [satoshis |-> 1, basket |-> "bsv-did",
                   lockingScript |-> [pushDrop |-> serialNumber],
                   customInstructions |->
                      [keyID |-> serialNumber, didDocument |-> didDocument]] >>]

\* The arguments of the createAction request of updateDID, lines 451-483.
UpdateActionArgs(topic, previousTxid, previousVout, newDidDocument) ==
  [description |-> <<"Update DID on BSV overlay (topic: ">> \o topic \o <<")">>,
   inputs |-> << [outpoint |-> previousTxid \o <<":">>
                                  \o NumberToString(previousVout)] >>,
   outputs |-> << [satoshis |-> 0,
                   lockingScript |->
                      [opReturn |-> [topic |-> topic, op |-> "UPDATE",
                                     txid |-> previousTxid,
                                     vout |-> NumberToString(previousVout),
                                     document |-> newDidDocument]]],
                  [satoshis |-> 1, lockingScript |-> "76a914-00x20-88ac"] >>]

\* createDID, lines 95-102: await this.createWalletClient().
CreateStart(c, didDocument, publicKeyJWK, keyId) ==
  /\ call' = [call EXCEPT ![c] =
       [IdleCall EXCEPT !.op = "create", !.pc = "createWalletClient",
                        !.seq = ncalls + 1, !.didDocument = didDocument,
                        !.publicKeyJWK = publicKeyJWK, !.keyId = keyId,
                        !.calls = <<"createWalletClient">>]]
  /\ ncalls' = ncalls + 1
  /\ UNCHANGED <<req, walletClient, db, anchors>>

\* lines 102-176: this.walletClient is assigned, the serial number and the DID
\* are derived, and pushDropToken.lock is awaited.
AfterCreateWalletClient(c, ok, e, timestamp, nonce) ==
  /\ call[c].op = "create" /\ call[c].pc = "createWalletClient"
  /\ LET q == call[c]
         serialNumber == ToHex(Sha256(q.didDocument, timestamp, nonce))
     IN IF ~ok
          THEN /\ call' = [call EXCEPT ![c] = Finish(q, Throw(e))]
               /\ UNCHANGED walletClient
          ELSE /\ walletClient' = "client"
               /\ call' = [call EXCEPT ![c] =
                    [q EXCEPT !.pc = "lock",
                              !.timestamp = timestamp,
                              !.serialNumber = serialNumber,
                              !.newDid = SerialDid(Topic, serialNumber),
                              !.calls = Append(@, "lock")]]
  /\ UNCHANGED <<req, db, anchors, ncalls>>

\* The catch of createDID, lines 302-307: the error is logged and rethrown.
CreateCatchSwallows(q, e) ==
  Finish([q EXCEPT !.logged = Append(@, e)],
         Return([did |-> q.newDid, car |-> [txid |-> q.txid],
                 didDocument |-> FinalDidDocument(q.didDocument, q.newDid,
                                                  q.publicKeyJWK, q.keyId)]))

CreateCatch(q, e) ==
  Finish([q EXCEPT !.logged = Append(@, e)], Throw(e))

\* lines 168-205: the lock resolved or rejected; createAction is awaited.
AfterLock(c, ok, e) ==
  /\ call[c].op = "create" /\ call[c].pc = "lock"
  /\ LET q == call[c]
     IN call' = [call EXCEPT ![c] =
          IF ~ok
            THEN CreateCatch(q, e)
            ELSE [q EXCEPT !.pc = "createAction",
                           !.calls = Append(@, "createAction"),
                           !.actions = Append(@, CreateActionArgs(
                                          q.serialNumber, q.didDocument))]]
  /\ UNCHANGED <<req, walletClient, db, anchors, ncalls>>

RethrowsIndexError(q, e) ==
  Finish([q EXCEPT !.logged = Append(@, e)], Throw(e))

\* lines 276-300: an index write failure is logged and the result returned.
IndexWriteFailed(q, e) ==
  Finish([q EXCEPT !.logged = Append(@, e)],
         Return([did |-> q.newDid, car |-> [txid |-> q.txid],
                 didDocument |-> q.finalDidDocument]))

\* lines 183-300: the anchor transaction exists or createAction rejected; the
\* final document is built, and the index write is awaited when db is set.
AfterCreateAction(c, ok, e) ==
  /\ call[c].op = "create" /\ call[c].pc = "createAction"
  /\ LET q == call[c]
         txid == TxId(Len(anchors) + 1)
         final == FinalDidDocument(q.didDocument, q.newDid,
                                   q.publicKeyJWK, q.keyId)
         built == [q EXCEPT !.txid = txid, !.finalDidDocument = final]
     IN IF ~ok
          THEN /\ call' = [call EXCEPT ![c] = CreateCatch(q, e)]
               /\ UNCHANGED anchors
          ELSE /\ anchors' = Append(anchors,
                      [txid |-> txid, args |-> q.actions[Len(q.actions)]])
               /\ call' = [call EXCEPT ![c] =
                    IF db.configured
                      THEN [built EXCEPT !.pc = "insertOne",
                                         !.calls = Append(@, "insertOne")]
                      ELSE Finish(built,
                             Return([did |-> q.newDid, car |-> [txid |-> txid],
                                     didDocument |-> final]))]
  /\ UNCHANGED <<req, walletClient, db, ncalls>>

\* The index write under a unique index on serialNumber: a second record with
\* the same serial number is refused.
AfterInsertOneUnique(c, ok, e) ==
  /\ call[c].op = "create" /\ call[c].pc = "insertOne"
  /\ LET q == call[c]
         duplicate == \E i \in DOMAIN db.index :
                         db.index[i].serialNumber = q.serialNumber
     IN IF ~ok \/ duplicate
          THEN /\ call' = [call EXCEPT ![c] =
                    IndexWriteFailed(q, IF ok THEN Error("E11000 duplicate key")
                                              ELSE e)]
               /\ UNCHANGED db
          ELSE /\ db' = [db EXCEPT !.index =
                    Append(@, LookupData(q.serialNumber, q.txid, Topic,
                                         q.finalDidDocument))]
               /\ call' = [call EXCEPT ![c] =
                    Finish(q, Return([did |-> q.newDid,
                                      car |-> [txid |-> q.txid],
                                      didDocument |-> q.finalDidDocument]))]
  /\ UNCHANGED <<req, walletClient, anchors, ncalls>>

\* lines 274-300: insertOne resolved or rejected; createDID returns.
AfterInsertOne(c, ok, e) ==
  /\ call[c].op = "create" /\ call[c].pc = "insertOne"
  /\ LET q == call[c]
     IN IF ~ok
          THEN /\ call' = [call EXCEPT ![c] = IndexWriteFailed(q, e)]
               /\ UNCHANGED db
          ELSE /\ db' = [db EXCEPT !.index =
                    Append(@, LookupData(q.serialNumber, q.txid, Topic,
                                         q.finalDidDocument))]
               /\ call' = [call EXCEPT ![c] =
                    Finish(q, Return([did |-> q.newDid,
                                      car |-> [txid |-> q.txid],
                                      didDocument |-> q.finalDidDocument]))]
  /\ UNCHANGED <<req, walletClient, anchors, ncalls>>

\* The format check of resolveDID, line 321.
ResolveAcceptsAnyLength(didParts) ==
  Len(didParts) < 4 \/ didParts[1] # <<"d", "i", "d">>
                    \/ didParts[2] # <<"b", "s", "v">>

ResolveAcceptsOutpointForm(didParts) ==
  Len(didParts) \notin {4, 5} \/ didParts[1] # <<"d", "i", "d">>
                              \/ didParts[2] # <<"b", "s", "v">>

ResolveRejects(didParts) ==
  Len(didParts) # 4 \/ didParts[1] # <<"d", "i", "d">>
                    \/ didParts[2] # <<"b", "s", "v">>

\* What resolveDID does for a DID with no usable index entry, lines 413-419.
NotFoundQueriesOverlay(q) ==
  [q EXCEPT !.pc = "fetch", !.calls = Append(@, "fetch")]

NotFound(q) == Finish(q, Return(Null))

\* resolveDID, lines 315-333: parse the DID; findOne is awaited when db is set.
ResolveStart(c, did) ==
  /\ LET didParts == Split(did)
         q == [IdleCall EXCEPT !.op = "resolve", !.seq = ncalls + 1,
                               !.did = did]
     IN call' = [call EXCEPT ![c] =
          IF ResolveRejects(didParts)
            THEN Finish([q EXCEPT !.logged = <<InvalidDidFormat>>],
                        Throw(FailedToResolve(InvalidDidFormat)))
            ELSE IF db.configured
              THEN [q EXCEPT !.pc = "findOne",
                             !.serialNumber = didParts[4],
                             !.calls = <<"findOne">>]
              ELSE NotFound([q EXCEPT !.serialNumber = didParts[4]])]
  /\ ncalls' = ncalls + 1
  /\ UNCHANGED <<req, walletClient, db, anchors>>

\* `if (didLookup.didDocument)`, line 344.
CachedDocumentIgnored(didLookup) == FALSE

HasCachedDocument(didLookup) == didLookup.didDocument # Null

\* lines 333-373: the index answered; the cached document is returned, or the
\* overlay provider is queried with the outpoint, or null is returned.
\* this.overlayProvider is a non-empty URL, so line 354 does not throw.
AfterFindOne(c, ok, e) ==
  /\ call[c].op = "resolve" /\ call[c].pc = "findOne"
  /\ LET q == call[c]
         didLookup == FindOne(db.index, q.serialNumber)
     IN call' = [call EXCEPT ![c] =
          IF ~ok
            THEN Finish([q EXCEPT !.logged = <<e>>], Throw(FailedToResolve(e)))
          ELSE IF didLookup = Null THEN NotFound(q)
          ELSE IF HasCachedDocument(didLookup)
            THEN Finish(q, Return(didLookup.didDocument))
          ELSE IF didLookup.txid # <<>>
            THEN [q EXCEPT !.pc = "fetch",
                           !.outpoint =
                              didLookup.txid \o <<".">>
                                \o NumberToString(Number(didLookup.vout)),
                           !.calls = Append(@, "fetch")]
          ELSE NotFound(q)]
  /\ UNCHANGED <<req, walletClient, db, anchors, ncalls>>

ProviderError == [name |-> "Error", message |-> <<"Overlay provider error: ", "500">>]

\* `!response.ok`, line 375: the provider answered with a non-success status.
ResponseNotOk(outcome) == outcome = "status"

\* lines 361-380: fetch rejected, answered with a non-success status, or
\* answered ok, and then response.json() is awaited.
AfterFetch(c, outcome, e) ==
  /\ call[c].op = "resolve" /\ call[c].pc = "fetch"
  /\ LET q == [call[c] EXCEPT !.fetched = outcome]
     IN call' = [call EXCEPT ![c] =
          IF outcome = "reject"
            THEN Finish([q EXCEPT !.logged = <<e, e>>], Throw(FailedToResolve(e)))
          ELSE IF ResponseNotOk(outcome)
            THEN Finish([q EXCEPT !.logged = <<ProviderError, ProviderError>>],
                        Throw(FailedToResolve(ProviderError)))
          ELSE [q EXCEPT !.pc = "json", !.calls = Append(@, "json")]]
  /\ UNCHANGED <<req, walletClient, db, anchors, ncalls>>

\* The document an overlay output carries.
OverlayDocument ==
  FinalDidDocument(DocList[1], SerialDid(Topic, ForeignRecord.serialNumber),
                   UndefinedObj, Undefined)

\* Payloads response.json() can resolve to.  A field is a string (JSON text of
\* a document, or text that is not JSON) or an already structured value.
JsonText(value) == [typeof |-> "string", parses |-> TRUE, value |-> value]
NotJson == [typeof |-> "string", parses |-> FALSE, value |-> Null]
Structured(value) == [typeof |-> "object", parses |-> FALSE, value |-> value]

Payloads ==
  { [type |-> "output-list", outputs |-> << [fields |-> <<JsonText(OverlayDocument)>>] >>],
    [type |-> "output-list", outputs |-> << [fields |-> <<Structured(OverlayDocument)>>] >>],
    [type |-> "output-list", outputs |-> << [fields |-> <<NotJson>>] >>],
    [type |-> "output-list", outputs |-> << [fields |-> <<>>] >>],
    [type |-> "output-list", outputs |-> <<>>],
    [type |-> "freeform", outputs |-> << [fields |-> <<Structured(OverlayDocument)>>] >>],
    [type |-> "output-list", outputs |-> <<Null>>],
    [type |-> "freeform", outputs |-> <<Null>>],
    Null }

\* Reading a property of null, lines 384 and 390.
NullRead(property) ==
  [name |-> "TypeError",
   message |-> <<"Cannot read properties of null (reading '", property, "')">>]

\* lines 395-398: JSON.parse of a string field, any other field as it is.
DecodeFieldAlwaysParses(field) ==
  IF field.parses THEN [threw |-> FALSE, value |-> field.value]
  ELSE [threw |-> TRUE, value |-> Null]

DecodeField(field) ==
  IF field.typeof = "string"
    THEN IF field.parses THEN [threw |-> FALSE, value |-> field.value]
         ELSE [threw |-> TRUE, value |-> Null]
    ELSE [threw |-> FALSE, value |-> field.value]

\* lines 380-419: the payload is decoded into a document, or null is returned.
AfterJson(c, ok, e, data) ==
  /\ call[c].op = "resolve" /\ call[c].pc = "json"
  /\ LET q == IF ok THEN [call[c] EXCEPT !.payload = <<data>>] ELSE call[c]
     IN call' = [call EXCEPT ![c] =
          IF ~ok
            THEN Finish([q EXCEPT !.logged = <<e, e>>], Throw(FailedToResolve(e)))
          ELSE IF data = Null
            THEN Finish([q EXCEPT !.logged = <<NullRead("type"), NullRead("type")>>],
                        Throw(FailedToResolve(NullRead("type"))))
          ELSE IF data.type = "output-list" /\ Len(data.outputs) > 0
            THEN LET output == data.outputs[1]
                 IN IF output = Null
                      THEN Finish([q EXCEPT !.logged = <<NullRead("fields"),
                                                        NullRead("fields")>>],
                                  Throw(FailedToResolve(NullRead("fields"))))
                    ELSE IF Len(output.fields) > 0
                      THEN LET didDocument == DecodeField(output.fields[1])
                           IN IF didDocument.threw
                                THEN NotFound([q EXCEPT !.logged =
                                                 <<Error("JSON.parse")>>])
                                ELSE Finish(q, Return(didDocument.value))
                      ELSE NotFound(q)
            ELSE NotFound(q)]
  /\ UNCHANGED <<req, walletClient, db, anchors, ncalls>>

\* parts[i] inside a template literal or parseInt: an index past the end reads
\* undefined, which prints as 'undefined'.
Part(parts, i) ==
  IF i <= Len(parts) THEN parts[i]
  ELSE <<"u", "n", "d", "e", "f", "i", "n", "e", "d">>

\* The format check of updateDID, line 442.
UpdateAcceptsSerialForm(parts) == Len(parts) < 4

UpdateRejects(parts) == Len(parts) # 5

\* updateDID, lines 433-486: parse the DID, build the action and await
\* this.walletClient.createAction.
UpdateStart(c, did, newDidDocument) ==
  /\ LET parts == Split(did)
         q == [IdleCall EXCEPT !.op = "update", !.seq = ncalls + 1,
                               !.did = did, !.didDocument = newDidDocument]
     IN call' = [call EXCEPT ![c] =
          IF UpdateRejects(parts)
            THEN Finish([q EXCEPT !.logged = <<InvalidDidFormat>>],
                        Throw(InvalidDidFormat))
            ELSE IF walletClient = "undefined"
              THEN Finish([q EXCEPT !.logged = <<UndefinedWalletClient,
                                                UndefinedWalletClient>>],
                          Throw(UndefinedWalletClient))
              ELSE [q EXCEPT !.pc = "updateAction",
                             !.calls = <<"createAction">>,
                             !.actions = <<UpdateActionArgs(Topic, Part(parts, 4),
                                             ParseInt(Part(parts, 5)),
                                             newDidDocument)>>]]
  /\ ncalls' = ncalls + 1
  /\ UNCHANGED <<req, walletClient, db, anchors>>

\* lines 486-505: createAction resolved with the new txid, or rejected.
AfterUpdateAction(c, ok, e) ==
  /\ call[c].op = "update" /\ call[c].pc = "updateAction"
  /\ LET q == call[c]
         txid == TxId(Len(anchors) + 1)
     IN IF ~ok
          THEN /\ call' = [call EXCEPT ![c] =
                    Finish([q EXCEPT !.logged = <<e, e>>], Throw(e))]
               /\ UNCHANGED anchors
          ELSE /\ anchors' = Append(anchors, [txid |-> txid, args |-> q.actions[1]])
               /\ call' = [call EXCEPT ![c] =
                    Finish([q EXCEPT !.txid = txid,
                                     !.newDid = OutpointDid(Topic, txid)],
                           Return([did |-> OutpointDid(Topic, txid),
                                   txid |-> txid]))]
  /\ UNCHANGED <<req, walletClient, db, ncalls>>

\* DID strings callers pass to resolveDID and updateDID: the DIDs returned by
\* earlier calls, the empty string, and strings of three to six segments,
\* among them output indexes that are decimal, not a number, and signed
\* hexadecimal after white space.
SegDid == <<"d", "i", "d">>
SegBsv == <<"b", "s", "v">>
SegWeb == <<"w", "e", "b">>
UnknownSerial == ToHex(<<9, 9>>)

LiteralDids ==
  { <<>>,
    Join(<<SegDid, SegBsv, Topic>>),
    Join(<<SegDid, SegBsv, Topic, ForeignRecord.serialNumber>>),
    Join(<<SegDid, SegBsv, Topic, UnknownSerial>>),
    Join(<<SegDid, SegWeb, Topic, UnknownSerial>>),
    Join(<<SegDid, SegBsv, Topic, TxId(1), <<"0">>>>),
    Join(<<SegDid, SegBsv, Topic, TxId(1), <<"x">>>>),
    Join(<<SegDid, SegBsv, Topic, TxId(1),
           <<" ", "", "U+2003", "-", "0", "x", "1", "F">>>>),
    Join(<<SegDid, SegBsv, Topic, TxId(1), <<"0">>, <<"0">>>>) }

ReturnedDids ==
  {call[o].result.value.did :
     o \in {x \in Calls : /\ call[x].op \in {"create", "update"}
                          /\ call[x].result.kind = "return"}}

DidInputs == LiteralDids \cup ReturnedDids

\* A did_lookups record an earlier registry process wrote at a createDID, with
\* its cached document, and the DID of that record.
StoredSerial == ToHex(Sha256(DocList[1], 1, 1))
StoredRecord ==
  LookupData(StoredSerial, ToHex(<<14>>), Topic,
             FinalDidDocument(DocList[1], SerialDid(Topic, StoredSerial),
                              Obj([kty |-> "EC"]), Undefined))
StoredDid == SerialDid(Topic, StoredSerial)

\* The registry after construction: no wallet client; db is null or an empty
\* did_lookups collection.
DbInits ==
  { [configured |-> FALSE, index |-> <<>>],
    [configured |-> TRUE, index |-> <<>>] }

\* The same, and did_lookups collections that hold records already.
ResolveDbInits ==
  DbInits \cup { [configured |-> TRUE, index |-> <<ForeignRecord>>],
                 [configured |-> TRUE, index |-> <<ForeignRecord, StoredRecord>>] }

InitRegistryVars ==
  /\ call = [c \in Calls |-> IdleCall]
  /\ walletClient = "undefined"
  /\ anchors = <<>>
  /\ ncalls = 0

Init ==
  /\ req = [r \in Reqs |-> IdleReq]
  /\ InitRegistryVars
  /\ db = [configured |-> FALSE, index |-> <<>>]

InitRegistry ==
  /\ req = [r \in Reqs |-> IdleReq]
  /\ InitRegistryVars
  /\ db \in DbInits

InitResolves ==
  /\ req = [r \in Reqs |-> IdleReq]
  /\ InitRegistryVars
  /\ db \in ResolveDbInits

NextIssuer ==
  \/ \E r \in Reqs, body \in Bodies, ik \in IdentityKeys :
        FuncStart(r, body, ik) /\ UNCHANGED registryVars
  \/ \E r \in Reqs, ok \in BOOLEAN, e \in Errors :
        AfterVerifyNonce(r, ok, e) /\ UNCHANGED registryVars
  \/ \E r \in Reqs, ok \in BOOLEAN, e \in Errors, n \in ServerNonces :
        AfterCreateNonce(r, ok, e, n) /\ UNCHANGED registryVars
  \/ \E r \in Reqs, ok \in BOOLEAN, e \in Errors :
        AfterCreateHmac(r, ok, e) /\ UNCHANGED registryVars
  \/ \E r \in Reqs, ok \in BOOLEAN, e \in Errors :
        AfterDecryptFields(r, ok, e) /\ UNCHANGED registryVars
  \/ \E r \in Reqs, ok \in BOOLEAN, e \in Errors :
        AfterGetPublicKey(r, ok, e) /\ UNCHANGED registryVars
  \/ \E r \in Reqs, ok \in BOOLEAN, e \in Errors :
        AfterSign(r, ok, e) /\ UNCHANGED registryVars

SpecIssuer == Init /\ [][NextIssuer]_vars

\* Errors a registry collaborator can reject with.
CollabErrors == {Error("E1")}

\* The createDID arguments tried, one for each way lines 232-258 treat the
\* key: a key with a key id, a key alone (the document bringing an id and
\* verification methods of its own), and no key.
CreateArgs ==
  { <<DocList[1], Obj([kty |-> "EC"]), Str(<<"k">>)>>,
    <<DocList[2], Obj([kty |-> "EC"]), Undefined>>,
    <<DocList[1], UndefinedObj, Undefined>> }

\* The registry: up to MaxCalls calls of any of the three operations, whose
\* steps interleave in every order: a call may start while others are
\* suspended at an await.  The index starts empty, so that no resolve reaches
\* the overlay provider; updates carry the second document; Date.now() gives
\* every create the same time.
NextRegistry ==
  \/ \E c \in Calls, a \in CreateArgs :
        CanStart(c) /\ CreateStart(c, a[1], a[2], a[3])
  \/ \E c \in Calls, ok \in BOOLEAN, e \in CollabErrors, n \in Nonces :
        AfterCreateWalletClient(c, ok, e, 1, n)
  \/ \E c \in Calls, ok \in BOOLEAN, e \in CollabErrors : AfterLock(c, ok, e)
  \/ \E c \in Calls, ok \in BOOLEAN, e \in CollabErrors : AfterCreateAction(c, ok, e)
  \/ \E c \in Calls, ok \in BOOLEAN, e \in CollabErrors : AfterInsertOne(c, ok, e)
  \/ \E c \in Calls, did \in DidInputs : CanStart(c) /\ ResolveStart(c, did)
  \/ \E c \in Calls, ok \in BOOLEAN, e \in CollabErrors : AfterFindOne(c, ok, e)
  \/ \E c \in Calls, did \in DidInputs :
        CanStart(c) /\ UpdateStart(c, did, DocList[2])
  \/ \E c \in Calls, ok \in BOOLEAN, e \in CollabErrors : AfterUpdateAction(c, ok, e)

SpecRegistry == InitRegistry /\ [][NextRegistry]_vars

\* resolveDID calls only, up to MaxCalls of them, over every DID string and
\* every answer of the index and of the overlay provider.
ResolveDids == LiteralDids \cup {StoredDid}

NextResolves ==
  \/ \E c \in Calls, did \in ResolveDids : CanStart(c) /\ ResolveStart(c, did)
  \/ \E c \in Calls, ok \in BOOLEAN, e \in CollabErrors : AfterFindOne(c, ok, e)
  \/ \E c \in Calls, o \in {"reject", "status", "ok"}, e \in CollabErrors :
        AfterFetch(c, o, e)
  \/ \E c \in Calls, ok \in BOOLEAN, e \in CollabErrors, data \in Payloads :
        AfterJson(c, ok, e, data)

SpecResolves == InitResolves /\ [][NextResolves]_vars

\* Longer call sequences over fewer inputs: up to MaxIndexCalls calls, all of
\* which may be in flight at once, one create argument and one time.
CanStartIndex(c) ==
  /\ ncalls < MaxIndexCalls
  /\ c = SlotNames[ncalls + 1]

\* The outpoint-form DID of the first anchor's output 0.
FirstOutpointDid == Join(<<SegDid, SegBsv, Topic, TxId(1), <<"0">>>>)

\* Every DID resolved here is one a create or an update returned, or the
\* outpoint-form DID: no resolve reaches the overlay provider.
IndexDids == ReturnedDids \cup {FirstOutpointDid}

NextIndex ==
  \/ \E c \in Calls :
        CanStartIndex(c)
          /\ CreateStart(c, DocList[1], Obj([kty |-> "EC"]), Undefined)
  \/ \E c \in Calls, ok \in BOOLEAN, e \in CollabErrors, n \in Nonces :
        AfterCreateWalletClient(c, ok, e, 1, n)
  \/ \E c \in Calls, ok \in BOOLEAN, e \in CollabErrors : AfterLock(c, ok, e)
  \/ \E c \in Calls, ok \in BOOLEAN, e \in CollabErrors : AfterCreateAction(c, ok, e)
  \/ \E c \in Calls, ok \in BOOLEAN, e \in CollabErrors : AfterInsertOne(c, ok, e)
  \/ \E c \in Calls, did \in IndexDids :
        CanStartIndex(c) /\ ResolveStart(c, did)
  \/ \E c \in Calls, ok \in BOOLEAN, e \in CollabErrors : AfterFindOne(c, ok, e)
  \/ \E c \in Calls, did \in IndexDids :
        CanStartIndex(c) /\ UpdateStart(c, did, DocList[2])
  \/ \E c \in Calls, ok \in BOOLEAN, e \in CollabErrors : AfterUpdateAction(c, ok, e)

SpecIndex == InitRegistry /\ [][NextIndex]_vars

\* The createDID arguments tried where the time of creation varies: two
\* documents, each with a key.
TimedCreateArgs ==
  { <<DocList[1], Obj([kty |-> "EC"]), Str(<<"k">>)>>,
    <<DocList[2], Obj([kty |-> "EC"]), Undefined>> }

\* createDID calls only, up to MaxCalls of them on one registry, whose steps
\* interleave in every order: a call may start while the others are suspended
\* at an await.  Date.now() gives each create any time up to MaxTime.
NextCreates ==
  \/ \E c \in Calls, a \in TimedCreateArgs :
        CanStart(c) /\ CreateStart(c, a[1], a[2], a[3])
  \/ \E c \in Calls, ok \in BOOLEAN, e \in CollabErrors,
        t \in 1..MaxTime, n \in Nonces :
        AfterCreateWalletClient(c, ok, e, t, n)
  \/ \E c \in Calls, ok \in BOOLEAN, e \in CollabErrors : AfterLock(c, ok, e)
  \/ \E c \in Calls, ok \in BOOLEAN, e \in CollabErrors : AfterCreateAction(c, ok, e)
  \/ \E c \in Calls, ok \in BOOLEAN, e \in CollabErrors : AfterInsertOne(c, ok, e)

SpecCreates == InitRegistry /\ [][NextCreates]_vars

(***************************************************************************)
(* Certificate issuer: properties                                          *)
(***************************************************************************)
\* A request the handler has started on.
Started(r) == req[r].pc # "idle"
Finished(r) == req[r].pc = "done"

\* A required body field is missing when it is absent or the empty string.
Missing(v) == ~v.def \/ v = Str(<<>>)

RequiredFields == <<"clientNonce", "type", "fields", "masterKeyring">>

MissingFields(body) == {i \in 1..Len(RequiredFields) : Missing(body[RequiredFields[i]])}

FirstMissing(body) ==
  RequiredFields[CHOOSE i \in MissingFields(body) :
                    \A j \in MissingFields(body) : i <= j]

DescriptionNaming(field) ==
  CASE field = "clientNonce" -> "Missing client nonce!"
    [] field = "type" -> "Missing certificate type!"
    [] field = "fields" -> "Missing certificate fields to sign!"
    [] field = "masterKeyring" -> "Missing masterKeyring to decrypt fields!"

\* C1: a request with a missing clientNonce, type, fields or masterKeyring is
\* answered 400 {status:'error', description}, the description naming the
\* first missing field in that order, and no collaborator call is made for it.
C1_MissingFieldIs400 ==
  \A r \in Reqs :
    (Started(r) /\ MissingFields(req[r].body) # {}) =>
      /\ Finished(r)
      /\ req[r].responses =
           << [status |-> 400,
               json |-> [status |-> "error",
                         description |->
                            DescriptionNaming(FirstMissing(req[r].body))]] >>
      /\ req[r].calls = <<>>

\* Two fields are missing and the description names the earlier one.
C1_Witness ==
  \E r \in Reqs :
    /\ Finished(r)
    /\ MissingFields(req[r].body) = {2, 4}
    /\ req[r].responses[1].status = 400
    /\ req[r].responses[1].json.description = "Missing certificate type!"

GenericInternalError ==
  [status |-> 500,
   json |-> [status |-> "error", code |-> "ERR_INTERNAL",
             description |-> "An internal error has occurred."]]

\* A gate after validation failed for this request: an error reached the
\* handler's catch.
GateFailed(r) == Finished(r) /\ req[r].logged # "none"

\* C2: once validation has passed, a failure at any later gate is answered
\* with the one generic 500 response, whatever the gate and the error.
C2_GateFailureIsGeneric500 ==
  \A r \in Reqs :
    GateFailed(r) =>
      /\ MissingFields(req[r].body) = {}
      /\ req[r].responses = << GenericInternalError >>
      /\ \A o \in Reqs : GateFailed(o) => req[o].responses = req[r].responses

\* Two requests failed at different gates with different errors.
C2_Witness ==
  /\ GateFailed("r1") /\ GateFailed("r2")
  /\ req["r1"].calls = <<"verifyNonce">>
  /\ req["r2"].calls[Len(req["r2"].calls)] = "sign"
  /\ req["r1"].logged # req["r2"].logged

Succeeded(r) ==
  /\ Finished(r)
  /\ req[r].responses # <<>>
  /\ req[r].responses[1].status = 200

\* Every atomic value carried by a 200 response.
ResponseValues(resp) ==
  LET c == resp.json.certificate
  IN Range(c.type.s) \cup Range(c.fields.m) \cup Range(resp.json.serverNonce)
       \cup Range(c.serialNumber.b64.keyID)
       \cup {c.subject, c.certifier, c.revocationOutpoint, c.signature,
             c.serialNumber.b64.counterparty}

\* C3: in a 200 response the certificate's fields are the submitted (still
\* encrypted) values, and no decrypted plaintext occurs in the response.
C3_FieldsStayEncrypted ==
  \A r \in Reqs :
    Succeeded(r) =>
      /\ Len(req[r].responses) = 1
      /\ req[r].responses[1].json.certificate.fields = req[r].body.fields
      /\ DOMAIN req[r].responses[1].json = {"certificate", "serverNonce"}
      /\ Range(req[r].decryptedFields)
            \cap ResponseValues(req[r].responses[1]) = {}

\* A certificate was issued for a request whose fields were decrypted.
C3_Witness ==
  \E r \in Reqs :
    /\ Succeeded(r)
    /\ req[r].decryptedFields = [name |-> "p1"]
    /\ req[r].body.fields = Obj([name |-> "e1"])

\* The serial number of the request has been derived.
SerialDerived(r) ==
  \E i \in DOMAIN req[r].calls : req[r].calls[i] = "decryptFields"

Triple(r) ==
  <<req[r].body.clientNonce.s, req[r].serverNonce, req[r].identityKey>>

\* C4: the serial number is a function of (clientNonce, serverNonce,
\* identityKey) alone, and with the same clientNonce and identityKey two
\* different server nonces give different serial numbers.
C4_SerialNumberOfNonces ==
  \A r1, r2 \in Reqs :
    (SerialDerived(r1) /\ SerialDerived(r2)) =>
      /\ Triple(r1) = Triple(r2) => req[r1].serialNumber = req[r2].serialNumber
      /\ ( /\ req[r1].body.clientNonce = req[r2].body.clientNonce
           /\ req[r1].identityKey = req[r2].identityKey
           /\ req[r1].serverNonce # req[r2].serverNonce )
         => req[r1].serialNumber # req[r2].serialNumber

\* Two serial numbers derived for the same clientNonce and identity under
\* different server nonces, the requests differing in their fields.
C4_Witness ==
  /\ SerialDerived("r1") /\ SerialDerived("r2")
  /\ req["r1"].body.clientNonce = req["r2"].body.clientNonce
  /\ req["r1"].identityKey = req["r2"].identityKey
  /\ req["r1"].serverNonce # req["r2"].serverNonce
  /\ req["r1"].body.fields # req["r2"].body.fields

\* The response a finished request must have got, written from the request's
\* own body and identity key and the results its own collaborator calls gave
\* (the server nonce createNonce returned, the error a call rejected with).
OwnResponse(r) ==
  LET body == req[r].body
      cn == body.clientNonce.s
      sn == req[r].serverNonce
  IN IF MissingFields(body) # {}
       THEN [status |-> 400,
             json |-> [status |-> "error",
                       description |-> DescriptionNaming(FirstMissing(body))]]
     ELSE IF req[r].logged # "none" THEN GenericInternalError
     ELSE [status |-> 200,
           json |-> [certificate |->
                       [type |-> body.type,
                        serialNumber |->
                          [b64 |-> [data |-> Base64ToArray(cn \o sn),
                                    keyID |-> sn \o cn,
                                    counterparty |-> req[r].identityKey]],
                        subject |-> req[r].identityKey,
                        certifier |-> "SERVER",
                        revocationOutpoint |-> "0000.0",
                        fields |-> body.fields,
                        signature |-> "sig"],
                     serverNonce |-> sn]]

\* C16: under every interleaving of the requests' steps, the response to a
\* request is the one determined by its own body, its own identity key and
\* the results of its own collaborator calls; a request that has not finished
\* has no response.
C16_ResponseOfOwnInputs ==
  \A r \in Reqs :
    /\ Finished(r) => req[r].responses = <<OwnResponse(r)>>
    /\ ~Finished(r) => req[r].responses = <<>>

\* A certificate was answered to one request while another request, with
\* another identity, server nonce and fields, was between two awaits.
C16_Witness ==
  \E r, o \in Reqs :
    /\ Succeeded(r)
    /\ req[o].pc \in {"decryptFields", "getPublicKey", "sign"}
    /\ req[o].serverNonce # req[r].serverNonce
    /\ req[o].identityKey # req[r].identityKey
    /\ req[o].body.fields # req[r].body.fields

\* The awaited gates of the handler in source order: nonce verification,
\* server nonce, serial number, field decryption, certifier key, signature.
GateOrder ==
  <<"verifyNonce", "createNonce", "createHmac", "decryptFields",
    "getPublicKey", "sign">>

\* C17: the gates of a request start in the fixed order, each after the one
\* before it resolved and only for a validated request; the first rejected
\* gate ends the request with the error response and no later gate starts; a
\* 200 response is sent only when every gate resolved, the fields having been
\* opened by the keyring; a finished request takes no further step.
C17_GatesInOrder ==
  /\ [](\A r \in Reqs :
          LET calls == req[r].calls
              results == req[r].results
          IN /\ Len(calls) <= Len(GateOrder)
             /\ calls = SubSeq(GateOrder, 1, Len(calls))
             /\ calls # <<>> => MissingFields(req[r].body) = {}
             /\ Len(results) = IF Finished(r) \/ ~Started(r)
                                 THEN Len(calls) ELSE Len(calls) - 1
             /\ \A i \in DOMAIN results :
                   results[i] = "rejected" =>
                     /\ i = Len(calls)
                     /\ Finished(r)
                     /\ req[r].responses = <<GenericInternalError>>
             /\ (\E i \in DOMAIN req[r].responses :
                    req[r].responses[i].status = 200) =>
                   /\ Finished(r)
                   /\ calls = GateOrder
                   /\ results = [i \in DOMAIN GateOrder |-> "resolved"]
                   /\ KeyringOpens(req[r].body.masterKeyring, req[r].body.fields))
  /\ [][\A r \in Reqs : Finished(r) => req'[r] = req[r]]_vars

\* One request was stopped by its field decryption and another one passed
\* every gate.
C17_Witness ==
  \E r, o \in Reqs :
    /\ Finished(r)
    /\ req[r].results = <<"resolved", "resolved", "resolved", "rejected">>
    /\ Succeeded(o)

\* The three responses of the route: 200 {certificate, serverNonce},
\* 400 {status, description}, 500 {status, code, description}.
OneOfThreeResponses(resp) ==
  \/ resp.status = 200 /\ DOMAIN resp.json = {"certificate", "serverNonce"}
  \/ resp.status = 400 /\ DOMAIN resp.json = {"status", "description"}
  \/ resp.status = 500 /\ DOMAIN resp.json = {"status", "code", "description"}

\* C23: a request never has more than one response; the handler has finished
\* exactly when the response is sent; the response is one of the three; and
\* once a response is sent no step adds or changes one.
C23_ExactlyOneResponse ==
  /\ [](\A r \in Reqs :
          /\ Len(req[r].responses) <= 1
          /\ Finished(r) <=> Len(req[r].responses) = 1
          /\ \A i \in DOMAIN req[r].responses :
                OneOfThreeResponses(req[r].responses[i]))
  /\ [][\A r \in Reqs :
          req[r].responses # <<>> => req'[r].responses = req[r].responses]_vars

\* One request was refused at validation and another one, every earlier gate
\* passed, failed at the signature.
C23_Witness ==
  \E r, o \in Reqs :
    /\ Finished(r) /\ req[r].responses[1].status = 400
    /\ Finished(o) /\ req[o].responses[1].status = 500
    /\ req[o].results = <<"resolved", "resolved", "resolved", "resolved",
                          "resolved", "rejected">>

\* The serial number the requester computes from a 200 response: the digest
\* for its clientNonce, the response's serverNonce and its own identity key.
RecomputedSerialNumber(r, resp) ==
  LET cn == req[r].body.clientNonce.s
      sn == resp.json.serverNonce
  IN [b64 |-> [data |-> Base64ToArray(cn \o sn),
               keyID |-> sn \o cn,
               counterparty |-> req[r].identityKey]]

\* C24: in every 200 response the serverNonce next to the certificate is the
\* one createNonce gave this request, and the certificate's serialNumber is
\* the one recomputed from the request's clientNonce and that serverNonce.
C24_ServerNonceOfSerialNumber ==
  \A r \in Reqs :
    \A i \in DOMAIN req[r].responses :
      req[r].responses[i].status = 200 =>
        /\ req[r].responses[i].json.serverNonce = req[r].serverNonce
        /\ req[r].responses[i].json.serverNonce \in ServerNonces
        /\ req[r].responses[i].json.certificate.serialNumber
             = RecomputedSerialNumber(r, req[r].responses[i])

\* Two certificates were issued for one padded clientNonce and one identity
\* under different server nonces.
C24_Witness ==
  /\ Succeeded("r1") /\ Succeeded("r2")
  /\ req["r1"].body.clientNonce = Str(<<"Q", "=">>)
  /\ req["r2"].body.clientNonce = Str(<<"Q", "=">>)
  /\ req["r1"].identityKey = req["r2"].identityKey
  /\ req["r1"].responses[1].json.serverNonce
       # req["r2"].responses[1].json.serverNonce

(***************************************************************************)
(* DID registry: properties                                                *)
(***************************************************************************)
Done(c) == call[c].pc = "done"
Returned(c) == Done(c) /\ call[c].result.kind = "return"
Threw(c) == Done(c) /\ call[c].result.kind = "throw"
Called(c, name) == \E i \in DOMAIN call[c].calls : call[c].calls[i] = name

\* The number of colon-separated segments of a string.
SegmentCount(text) == 1 + Cardinality({i \in DOMAIN text : text[i] = ":"})

\* A collaborator (wallet, index, overlay provider) rejected during the call.
CollaboratorFailed(c) ==
  \E i \in DOMAIN call[c].logged : call[c].logged[i] \in CollabErrors

\* Call r started after call c had returned or thrown.
StartedAfter(r, c) == Done(c) /\ call[c].end < call[r].seq

\* r is a resolve of the DID that create call c returned, made right after it:
\* r is the first call started after c returned.
ResolvesRightAfter(r, c) ==
  /\ call[c].op = "create" /\ Returned(c)
  /\ call[r].op = "resolve" /\ Done(r)
  /\ call[r].seq = call[c].end + 1
  /\ call[r].did = call[c].result.value.did

ResolvedCreated(r, c) ==
  /\ Returned(r)
  /\ call[r].result.value # Null
  /\ call[r].result.value.id = call[c].result.value.did
  /\ ~Falsy(call[c].publicKeyJWK) =>
        Len(call[r].result.value.verificationMethod) = 1

\* C5 as stated: right after create returns a DID, resolve of it returns a
\* document with that id and, when a key was supplied, one verification method.
C5_AsStated ==
  \A r, c \in Calls : ResolvesRightAfter(r, c) => ResolvedCreated(r, c)

\* create's index write succeeded and its record is the only one under its
\* serial number.
Indexed(c) ==
  /\ db.configured
  /\ Called(c, "insertOne") /\ ~CollaboratorFailed(c)
  /\ Cardinality({i \in DOMAIN db.index :
                    db.index[i].serialNumber = call[c].serialNumber}) = 1

\* C5 (amended): right after create returns a DID, when the lookup index is
\* configured, create's index write succeeded, the index holds no other record
\* under that serial number and the index read does not fail, resolve of the
\* DID returns a document with that id and, when a key was supplied, exactly
\* one verification method.
C5_ResolveAfterIndexedCreate ==
  \A r, c \in Calls :
    (ResolvesRightAfter(r, c) /\ Indexed(c) /\ ~CollaboratorFailed(r))
      => ResolvedCreated(r, c)

\* A DID created with a key and an explicit key id was resolved.
C5_Witness ==
  \E r, c \in Calls :
    /\ ResolvesRightAfter(r, c) /\ Indexed(c) /\ ~CollaboratorFailed(r)
    /\ ~Falsy(call[c].publicKeyJWK) /\ ~Falsy(call[c].keyId)
    /\ Returned(r)

\* The index write of create call c was issued and failed.
IndexWriteRejected(c) ==
  /\ call[c].op = "create" /\ Done(c)
  /\ call[c].calls[Len(call[c].calls)] = "insertOne"
  /\ CollaboratorFailed(c)

\* C6: once the anchor transaction exists, a failing index write is not
\* raised: create returns {did, car, didDocument} for that anchor, and the
\* anchor stays among the wallet's transactions.
C6_IndexFailureNotRaised ==
  \A c \in Calls :
    IndexWriteRejected(c) =>
      /\ Returned(c)
      /\ DOMAIN call[c].result.value = {"did", "car", "didDocument"}
      /\ call[c].result.value.did = call[c].newDid
      /\ call[c].result.value.didDocument.id = call[c].newDid
      /\ \E i \in DOMAIN anchors :
            /\ anchors[i].txid = call[c].result.value.car.txid
            /\ anchors[i].args.outputs[1].lockingScript.pushDrop
                 = call[c].serialNumber

\* An index write failed, and afterwards the following call has completed.
C6_Witness ==
  \E c, o \in Calls :
    /\ IndexWriteRejected(c)
    /\ Done(o) /\ call[o].seq = call[c].seq + 1

FormatErrorOf(c) ==
  /\ Threw(c)
  /\ call[c].result.error.name = "Error"
  /\ call[c].result.error.message[Len(call[c].result.error.message)]
       = "Invalid DID format"

NoCollaboratorUsed(c) == call[c].calls = <<>> /\ call[c].actions = <<>>

\* C7: resolve of a string without exactly 4 segments and update of a string
\* without exactly 5 segments fail with the 'Invalid DID format' error, and
\* call neither the index, the overlay provider nor the wallet.
C7_WrongSegmentCountIsFormatError ==
  \A c \in Calls :
    /\ (call[c].op = "resolve" /\ SegmentCount(call[c].did) # 4)
         => (FormatErrorOf(c) /\ NoCollaboratorUsed(c))
    /\ (call[c].op = "update" /\ SegmentCount(call[c].did) # 5)
         => (FormatErrorOf(c) /\ NoCollaboratorUsed(c))

\* A resolve of a 6-segment string and an update of a 3-segment string.
C7_Witness ==
  \E r, u \in Calls :
    /\ call[r].op = "resolve" /\ SegmentCount(call[r].did) = 6 /\ Done(r)
    /\ call[u].op = "update" /\ SegmentCount(call[u].did) = 3 /\ Done(u)

\* The DID has the serial-number form did:bsv:<topic>:<serial>.
SerialForm(did) ==
  /\ SegmentCount(did) = 4
  /\ SubSeq(did, 1, Len(DidPrefix)) = DidPrefix

CreatedDids ==
  {call[c].result.value.did :
     c \in {x \in Calls : call[x].op = "create" /\ Returned(x)}}

\* C8: update of a serial-number-form DID (the form create returns) raises
\* the format error and requests no transaction, in every registry state.
C8_UpdateOfSerialFormFails ==
  \A u \in Calls :
    (call[u].op = "update"
       /\ (SerialForm(call[u].did) \/ call[u].did \in CreatedDids))
      => /\ Threw(u)
         /\ call[u].result.error = InvalidDidFormat
         /\ call[u].actions = <<>>

\* With the wallet client set, update was called with the DID create returned.
C8_Witness ==
  \E u, c \in Calls :
    /\ call[c].op = "create" /\ Returned(c)
    /\ call[u].op = "update" /\ Done(u)
    /\ call[u].did = call[c].result.value.did
    /\ walletClient = "client"

\* The DID has the outpoint form did:bsv:<topic>:<txid>:<outputIndex> for this
\* registry's topic, with a non-empty txid and a decimal output index.
ValidOutpointDid(did) ==
  /\ SegmentCount(did) = 5
  /\ LET parts == Split(did)
     IN /\ parts[1] = SegDid /\ parts[2] = SegBsv /\ parts[3] = Topic
        /\ parts[4] # <<>>
        /\ parts[5] # <<>>
        /\ \A i \in DOMAIN parts[5] : IsDigit(parts[5][i])

\* C9 as stated: update of a valid outpoint-form DID, after any earlier
\* registry operations or none, the wallet not rejecting, requests exactly one
\* transaction with one input referencing the prior output and two outputs,
\* and returns did:bsv:<topic>:<newTxid>:1 for that transaction's id.
C9_UpdateBuildsOneTransaction ==
  \A u \in Calls :
    (call[u].op = "update" /\ Done(u) /\ ValidOutpointDid(call[u].did)
       /\ ~CollaboratorFailed(u))
      => LET parts == Split(call[u].did)
         IN /\ Len(call[u].actions) = 1
            /\ Len(call[u].actions[1].inputs) = 1
            /\ call[u].actions[1].inputs[1].outpoint
                 = parts[4] \o <<":">> \o NumberToString(ParseInt(parts[5]))
            /\ Len(call[u].actions[1].outputs) = 2
            /\ Returned(u)
            /\ \E i \in DOMAIN anchors :
                  /\ anchors[i].args = call[u].actions[1]
                  /\ call[u].result.value.txid = anchors[i].txid
                  /\ call[u].result.value.did =
                       Join(<<SegDid, SegBsv, parts[3], anchors[i].txid, <<"1">>>>)

\* The DID has the serial-number form with the did:bsv prefix.
WellFormedSerialDid(did) == SerialForm(did)

\* C10: resolve of a well-formed 4-segment DID without an index entry for its
\* serial number, or without a configured index, issues no request to the
\* overlay provider and, the index having answered, returns null.
C10_NoEntryIsNotFound ==
  \A r \in Calls :
    (call[r].op = "resolve" /\ Done(r) /\ WellFormedSerialDid(call[r].did)
       /\ (~db.configured \/ FindOne(db.index, Split(call[r].did)[4]) = Null))
      => /\ ~Called(r, "fetch")
         /\ ~CollaboratorFailed(r) => (Returned(r) /\ call[r].result.value = Null)

\* A resolve against a non-empty index that has no entry for the serial number.
C10_Witness ==
  \E r \in Calls :
    /\ call[r].op = "resolve" /\ Returned(r)
    /\ db.configured /\ db.index # <<>>
    /\ WellFormedSerialDid(call[r].did)
    /\ FindOne(db.index, Split(call[r].did)[4]) = Null
    /\ call[r].calls = <<"findOne">>

\* The provider answered resolve call r with a non-success network status.
NonSuccessStatus(r) == call[r].op = "resolve" /\ call[r].fetched = "status"

\* The payload is a JSON object.
JsonObject(data) == data # Null

\* The payload is an 'output-list' with at least one output carrying at least
\* one field.
WellFormedPayload(data) ==
  /\ JsonObject(data)
  /\ data.type = "output-list"
  /\ Len(data.outputs) > 0
  /\ JsonObject(data.outputs[1])
  /\ Len(data.outputs[1].fields) > 0

\* The provider answered resolve call r with a malformed payload.
MalformedPayload(r) ==
  /\ call[r].op = "resolve" /\ Done(r)
  /\ call[r].payload # <<>>
  /\ ~WellFormedPayload(call[r].payload[1])

\* resolve call r failed with the provider's status error.
ProviderErrorOf(r) ==
  /\ Threw(r)
  /\ call[r].result.error.message
       = <<"Failed to resolve DID: ", "Overlay provider error: ", "500">>

ReturnedDocument(r) == Returned(r) /\ call[r].result.value # Null

\* C11: when resolve queried the overlay provider and it answered with a
\* non-success status or a malformed payload, resolve fails with an error, and
\* returns neither 'not found' nor a document.  The code does so for a
\* non-success status only: a malformed payload that is an object falls
\* through lines 384-410 to `return null` at line 419.
C11_MalformedPayloadIsProviderError ==
  \A r \in Calls :
    /\ NonSuccessStatus(r) => ProviderErrorOf(r)
    /\ MalformedPayload(r) => Threw(r)

\* The verification-method id create uses: the explicit key id when given,
\* '<did>#key-1' otherwise.
ExpectedKeyId(c, did) ==
  IF call[c].keyId.def /\ call[c].keyId.s # <<>>
    THEN call[c].keyId.s
    ELSE did \o <<"#", "k", "e", "y", "-", "1">>

\* C12: in the document create returns, the id is the returned DID and, when
\* a public key was supplied, there is exactly one verification method: its id
\* is the explicit keyId or '<did>#key-1', its controller is the document id,
\* and its id is the single entry of authentication and of assertionMethod.
C12_CreatedDocumentShape ==
  \A c \in Calls :
    (call[c].op = "create" /\ Returned(c)) =>
      LET doc == call[c].result.value.didDocument
          did == call[c].result.value.did
      IN /\ doc.id = did
         /\ call[c].publicKeyJWK.def =>
              /\ Len(doc.verificationMethod) = 1
              /\ doc.verificationMethod[1].id = ExpectedKeyId(c, did)
              /\ doc.verificationMethod[1].controller = doc.id
              /\ doc.authentication = <<doc.verificationMethod[1].id>>
              /\ doc.assertionMethod = <<doc.verificationMethod[1].id>>

\* Two creates with a public key returned, one with an explicit key id and
\* one without, the latter for a document that came with verification methods.
C12_Witness ==
  \E c, o \in Calls :
    /\ call[c].op = "create" /\ Returned(c)
    /\ call[c].publicKeyJWK.def /\ call[c].keyId.def
    /\ call[o].op = "create" /\ Returned(o)
    /\ call[o].publicKeyJWK.def /\ ~call[o].keyId.def
    /\ call[o].didDocument.verificationMethod # <<>>

\* create call c has derived its serial number and DID (line 138 is passed).
SerialAssigned(c) == call[c].op = "create" /\ call[c].serialNumber # <<>>

\* C13: two create calls for the same document made at different times get
\* different serial numbers and different DIDs.
C13_DifferentTimesDifferentSerials ==
  \A c, o \in Calls :
    ( /\ SerialAssigned(c) /\ SerialAssigned(o)
      /\ call[c].didDocument = call[o].didDocument
      /\ call[c].timestamp # call[o].timestamp )
    => /\ call[c].serialNumber # call[o].serialNumber
       /\ call[c].newDid # call[o].newDid

\* The same document was created twice, at different times, and both calls
\* returned their DID.
C13_Witness ==
  \E c, o \in Calls :
    /\ call[c].op = "create" /\ Returned(c)
    /\ call[o].op = "create" /\ Returned(o)
    /\ call[c].didDocument = call[o].didDocument
    /\ call[c].timestamp # call[o].timestamp
    /\ call[c].result.value.did # call[o].result.value.did

\* The wallet has created the anchor transaction of this serial number under
\* this transaction id.
Anchored(serialNumber, txid) ==
  \E i \in DOMAIN anchors :
    /\ anchors[i].txid = txid
    /\ anchors[i].args.inputs = <<>>
    /\ anchors[i].args.outputs[1].lockingScript.pushDrop = serialNumber

\* The Token Encoder's lock or the wallet's createAction rejected in call c.
AnchoringFailed(c) ==
  /\ call[c].op = "create" /\ Done(c)
  /\ call[c].calls[Len(call[c].calls)] \in {"lock", "createAction"}
  /\ CollaboratorFailed(c)

\* The lookup-index records that carry a document.
DocumentRecords == {i \in DOMAIN db.index : db.index[i].didDocument # Null}

\* C14: a document with an assigned id, returned by create or stored in the
\* lookup index, exists only once the wallet has created its anchor
\* transaction; when lock or createAction fails, create raises that error,
\* returns nothing and writes no index record.
C14_IdOnlyAfterAnchor ==
  /\ \A c \in Calls :
        (call[c].op = "create" /\ Returned(c)) =>
          /\ call[c].result.value.didDocument.id = call[c].result.value.did
          /\ Anchored(call[c].serialNumber, call[c].result.value.car.txid)
  /\ \A i \in DocumentRecords :
        Anchored(db.index[i].serialNumber, db.index[i].txid)
  /\ \A c \in Calls :
        AnchoringFailed(c) =>
          /\ Threw(c)
          /\ call[c].result.error \in CollabErrors
          /\ call[c].logged = <<call[c].result.error>>
          /\ ~Called(c, "insertOne")

\* With an index configured, one create failed at createAction and another
\* one, whose lock had succeeded as well, stored its document.
C14_Witness ==
  \E c, o \in Calls :
    /\ AnchoringFailed(c)
    /\ call[c].calls[Len(call[c].calls)] = "createAction"
    /\ call[o].op = "create" /\ Returned(o)
    /\ DocumentRecords # {}

\* create call c returned after its index write succeeded.
Stored(c) ==
  /\ call[c].op = "create" /\ Returned(c)
  /\ Called(c, "insertOne") /\ ~CollaboratorFailed(c)

\* The record create call c wrote, with the document it returned.
RecordOf(c) ==
  [serialNumber |-> call[c].serialNumber,
   txid |-> call[c].result.value.car.txid, vout |-> 0, topic |-> Topic,
   didDocument |-> call[c].result.value.didDocument]

\* The index after this step is the index before it with one record added at
\* the end by the index write of a create call.
CreateAddsRecord ==
  \E c \in Calls :
    /\ call[c].op = "create" /\ call[c].pc = "insertOne"
    /\ db'.configured = db.configured
    /\ Len(db'.index) = Len(db.index) + 1
    /\ SubSeq(db'.index, 1, Len(db.index)) = db.index
    /\ db'.index[Len(db'.index)].serialNumber = call[c].serialNumber

\* An update has built its transaction (an anchor spending an earlier output).
UpdateAnchored == \E i \in DOMAIN anchors : anchors[i].args.inputs # <<>>

\* r, started after create call c returned, resolved the DID that c returned,
\* without a collaborator failure; an update has been anchored.
ResolvedAfterUpdate(r, c) ==
  /\ call[r].op = "resolve" /\ Done(r) /\ ~CollaboratorFailed(r)
  /\ StartedAfter(r, c)
  /\ call[r].did = call[c].result.value.did
  /\ UpdateAnchored

\* C15: every step leaves the lookup index unchanged or is the index write of
\* a create adding one record at the end; the record of a stored create stays
\* in the index as written; and a resolve of the created DID after an update
\* returns the document stored at creation.
C15_IndexOnlyGrowsByCreate ==
  /\ [][db' = db \/ CreateAddsRecord]_vars
  /\ [](\A c \in Calls :
          Stored(c) => \E i \in DOMAIN db.index : db.index[i] = RecordOf(c))
  /\ [](\A r, c \in Calls :
          (Stored(c) /\ Indexed(c) /\ ResolvedAfterUpdate(r, c)) =>
             /\ Returned(r)
             /\ call[r].result.value = call[c].result.value.didDocument)

\* A created DID was resolved after an update of its anchor output returned.
C15_Witness ==
  \E r, c \in Calls :
    /\ Stored(c) /\ Indexed(c) /\ ResolvedAfterUpdate(r, c)
    /\ \E i \in DOMAIN anchors :
          /\ anchors[i].args.inputs # <<>>
          /\ anchors[i].args.inputs[1].outpoint
               = call[c].result.value.car.txid \o <<":", "0">>

\* The external steps of createDID in source order.
CreateOrder == <<"createWalletClient", "lock", "createAction", "insertOne">>

\* C18: in a create call the external steps start in the order lock,
\* createAction, index write, one at a time, each after the one before it
\* completed; the index write starts only with an index configured and the
\* anchor transaction created, is started whenever an index is configured
\* and the anchor exists, and stores that transaction's id with output 0.
C18_CreateStepsInOrder ==
  \A c \in Calls :
    call[c].op = "create" =>
      LET calls == call[c].calls
      IN /\ Len(calls) <= Len(CreateOrder)
         /\ calls = SubSeq(CreateOrder, 1, Len(calls))
         /\ ~Done(c) => call[c].pc = calls[Len(calls)]
         /\ Called(c, "insertOne") =>
               /\ db.configured
               /\ Anchored(call[c].serialNumber, call[c].txid)
         /\ (Returned(c) /\ db.configured) => Called(c, "insertOne")
         /\ Stored(c) =>
               \E i \in DOMAIN db.index :
                 /\ db.index[i].serialNumber = call[c].serialNumber
                 /\ db.index[i].txid = call[c].result.value.car.txid
                 /\ db.index[i].vout = 0
                 /\ Anchored(db.index[i].serialNumber, db.index[i].txid)

\* One create has stored its record and the next one, its anchor transaction
\* created, is waiting for its index write.
C18_Witness ==
  \E c, o \in Calls :
    /\ Stored(c)
    /\ call[o].op = "create" /\ call[o].pc = "insertOne"
    /\ Len(anchors) = 2

\* The index entry findOne gives for the serial number of a 4-segment DID.
\* Records are only appended and findOne gives the first match, so an entry,
\* once there, stays the same.
EntryOf(did) == FindOne(db.index, Split(did)[4])

\* In this step the index answers the findOne of resolve call r.
FindOneAnswers(r) ==
  /\ call[r].op = "resolve" /\ call[r].pc = "findOne"
  /\ call'[r].pc # "findOne"

\* C19: when the index answers a resolve with an entry that has a cached
\* document, whatever the other calls are doing, resolve returns exactly that
\* document and sends no request to the overlay provider; a request to the
\* overlay provider is sent only for an entry with an outpoint and without a
\* cached document.
C19_CachedDocumentReturned ==
  /\ [][\A r \in Calls :
          ( /\ FindOneAnswers(r)
            /\ EntryOf(call[r].did) # Null
            /\ EntryOf(call[r].did).didDocument # Null )
          => /\ call'[r].pc = "done"
             /\ call'[r].calls = <<"findOne">>
             /\ call'[r].logged = <<>> =>
                   call'[r].result = Return(EntryOf(call[r].did).didDocument)]_vars
  /\ [](\A r \in Calls :
          (call[r].op = "resolve" /\ Called(r, "fetch")) =>
             /\ db.configured
             /\ EntryOf(call[r].did) # Null
             /\ EntryOf(call[r].did).didDocument = Null
             /\ EntryOf(call[r].did).txid # <<>>
             /\ call[r].outpoint = EntryOf(call[r].did).txid \o <<".", "0">>)

\* With a foreign record and a created record in the index, resolve of the
\* created DID returned after one index read.
C19_Witness ==
  \E r \in Calls :
    /\ call[r].op = "resolve" /\ Returned(r)
    /\ Len(db.index) = 2
    /\ db.index[1].didDocument = Null
    /\ call[r].result.value = db.index[2].didDocument
    /\ call[r].calls = <<"findOne">>

\* The provider answered resolve call r with an 'output-list' whose first
\* output has at least one field.
AnsweredWithField(r) ==
  /\ call[r].op = "resolve" /\ Done(r)
  /\ call[r].payload # <<>>
  /\ WellFormedPayload(call[r].payload[1])

FirstField(r) == call[r].payload[1].outputs[1].fields[1]

\* C20 as stated: for such an answer resolve returns a document taken from
\* the first field of the first output, decoded or passed through raw, and
\* never 'not found'.
C20_AsStated ==
  \A r \in Calls : AnsweredWithField(r) => ReturnedDocument(r)

\* C20 (amended): for such an answer resolve returns the structured decode of
\* the first field when it is a string that decodes, the field itself when it
\* is not a string, and 'not found' when it is a string that does not decode.
C20_FirstFieldDecoded ==
  \A r \in Calls :
    AnsweredWithField(r) =>
      /\ Returned(r)
      /\ (FirstField(r).typeof = "string" /\ FirstField(r).parses)
            => call[r].result.value = FirstField(r).value
      /\ FirstField(r).typeof # "string"
            => call[r].result.value = FirstField(r).value
      /\ (FirstField(r).typeof = "string" /\ ~FirstField(r).parses)
            => call[r].result.value = Null

\* One resolve returned a decoded string field and another one a field that
\* was already structured.
C20_Witness ==
  \E r, o \in Calls :
    /\ AnsweredWithField(r) /\ FirstField(r).typeof = "string"
    /\ ReturnedDocument(r)
    /\ AnsweredWithField(o) /\ FirstField(o).typeof = "object"
    /\ ReturnedDocument(o)

\* C21 as stated: the registry instance has no mutable field: no step of a
\* create, resolve or update call changes a field of the instance, so that an
\* operation's outcome cannot depend on the operations before it.
C21_InstanceNeverChanges ==
  [][walletClient' = walletClient]_vars

\* Two different create calls derived the same serial number and finished
\* without a collaborator rejecting.
SameSerialCreates(c, o) ==
  /\ c # o
  /\ call[c].op = "create" /\ Done(c) /\ ~CollaboratorFailed(c)
  /\ call[o].op = "create" /\ Done(o) /\ ~CollaboratorFailed(o)
  /\ call[c].serialNumber # <<>>
  /\ call[c].serialNumber = call[o].serialNumber

\* C22: whatever the interleaving of two create calls that derive the same
\* serial number, both create an anchor transaction of their own, both return
\* the same DID and, with an index configured, both insert a record under the
\* serial number.
C22_NoUniquenessCheck ==
  \A c, o \in Calls :
    SameSerialCreates(c, o) =>
      /\ Returned(c) /\ Returned(o)
      /\ call[c].result.value.did = call[o].result.value.did
      /\ call[c].result.value.car.txid # call[o].result.value.car.txid
      /\ Anchored(call[c].serialNumber, call[c].result.value.car.txid)
      /\ Anchored(call[o].serialNumber, call[o].result.value.car.txid)
      /\ db.configured =>
            /\ Called(c, "insertOne") /\ Called(o, "insertOne")
            /\ \E i, j \in DOMAIN db.index :
                  /\ i # j
                  /\ db.index[i].serialNumber = call[c].serialNumber
                  /\ db.index[j].serialNumber = call[c].serialNumber
                  /\ db.index[i].txid = call[c].result.value.car.txid
                  /\ db.index[j].txid = call[o].result.value.car.txid

\* Two creates of one serial number both returned with an index configured,
\* the call that started second having got its anchor first and its record
\* last.
C22_Witness ==
  \E c, o \in Calls :
    /\ SameSerialCreates(c, o) /\ db.configured
    /\ call[c].seq < call[o].seq
    /\ anchors[1].txid = call[o].result.value.car.txid
    /\ db.index[Len(db.index)].txid = call[o].result.value.car.txid

\* The DIDs update calls have returned: did:bsv:<topic>:<txid>:1 for the
\* transaction of each update.
UpdatedDids ==
  {OutpointDid(Topic, anchors[i].txid) :
     i \in {j \in DOMAIN anchors : anchors[j].args.inputs # <<>>}}

\* update call's result when it threw the format error.
InvalidDidFormatThrown ==
  [kind |-> "throw", error |-> [name |-> "Error", message |-> <<"Invalid DID format">>]]

\* The format checks of resolve and update as predicates of the string.
ResolveAcceptsFormat(did) ==
  /\ SegmentCount(did) = 4
  /\ SubSeq(did, 1, Len(DidPrefix)) = DidPrefix
UpdateAcceptsFormat(did) == SegmentCount(did) = 5

\* C25: no DID string passes the format check of both resolve and update;
\* update of a DID that create returned fails with the format error, and
\* resolve of a DID that update returned fails with the format error without
\* reading the index or asking the overlay provider.
C25_NoDidForBothOperations ==
  /\ \A did \in DidInputs :
        ~(ResolveAcceptsFormat(did) /\ UpdateAcceptsFormat(did))
  /\ \A c \in Calls :
        /\ (call[c].op = "resolve" /\ ~FormatErrorOf(c))
              => (ResolveAcceptsFormat(call[c].did)
                    /\ ~UpdateAcceptsFormat(call[c].did))
        /\ (call[c].op = "update" /\ call[c].result # InvalidDidFormatThrown)
              => (UpdateAcceptsFormat(call[c].did)
                    /\ ~ResolveAcceptsFormat(call[c].did))
        /\ (call[c].op = "update" /\ call[c].did \in CreatedDids)
              => call[c].result = InvalidDidFormatThrown
        /\ (call[c].op = "resolve" /\ call[c].did \in UpdatedDids)
              => (FormatErrorOf(c) /\ NoCollaboratorUsed(c))

\* After a create and an update of its anchor output, resolve was called with
\* the DID the update returned.
C25_Witness ==
  \E r, c \in Calls :
    /\ call[c].op = "create" /\ Returned(c)
    /\ call[r].op = "resolve" /\ Done(r)
    /\ call[r].did \in UpdatedDids
    /\ \E i \in DOMAIN anchors :
          /\ anchors[i].args.inputs # <<>>
          /\ anchors[i].args.inputs[1].outpoint
               = call[c].result.value.car.txid \o <<":", "0">>

====
